---- MODULE Spec2Model ----
(***************************************************************************)
(* A model of the Hillview web client's dataset session                    *)
(* (web/src/main/webapp/datasetView.ts, class DatasetView) and of the      *)
(* part of BigTableView (tableTarget.ts) that the session relies on.       *)
(*                                                                         *)
(* Objects with identity (FullPage) live in `heap`; a page is named by its *)
(* position in the heap (its object id).  The HTML representation of a     *)
(* page is a DOM node that is named by the same object id, so that         *)
(* `children` (pageContainer.children) and `allPages` can be compared.     *)
(* Indices are 0-based as in the source; At() reads a sequence 0-based.    *)
(***************************************************************************)
EXTENDS Integers, Sequences, FiniteSets, TLC

VARIABLES
    heap,            \* every FullPage object constructed for this session
    allPages,        \* DatasetView.allPages: page object ids, top to bottom
    children,        \* pageContainer.children: DOM nodes, top to bottom
    pageCounter,     \* DatasetView.pageCounter
    selected,        \* DatasetView.selected (a view, or NullView)
    selectedPageId,  \* DatasetView.selectedPageId
    last,            \* the last call made on the session: arguments, result, state before
    requests,        \* the remote requests sent so far, each with its receiver
    reported         \* the errors shown on pages so far (FullPage.reportError)

vars == <<heap, allPages, children, pageCounter, selected, selectedPageId, last,
          requests, reported>>

----------------------------------------------------------------------------
(* Bounds of the model.                                                    *)

\* FullPage objects constructed per session.
MaxPages == 3
\* Entries in the `views` array handed to reconstruct().
MaxViews == 2
\* Largest pageId found in a serialized view.
MaxId == 1
\* newPage is called while pageCounter is at most this.
MaxCounter == 4
MaxChains == 1
\* Combines started in the sessions where the selection changes meanwhile.
MaxOverlapping == 2
MaxColumns == 3

----------------------------------------------------------------------------
(* JavaScript values.                                                      *)

\* null / undefined for a number (page ids and row counts are >= 0).
NullId == -1
\* null / undefined for a string.
NullStr == "null"
\* null for a FullPage reference; also `undefined` for a DOM node.
NullPage == 0
\* null for a view reference.
NullView == [viewKind |-> NullStr, remoteObjectId |-> NullStr,
             rowCount |-> NullId, page |-> NullPage]

\* The remoteObjectId the DatasetView was constructed with.
DatasetRemoteObjectId == "ds"

\* No exception was thrown.
NoError == "none"
PageNotFound == "Page not found"
DomTypeError == "TypeError"

\* seq[i] with a 0-based index; out of range reads `undefined`.
At(seq, i) == IF i >= 0 /\ i < Len(seq) THEN seq[i + 1] ELSE NullPage

\* Array.prototype.indexOf: the first 0-based position of x, or -1.
IndexOf(seq, x) ==
    IF \E i \in 1..Len(seq) : seq[i] = x
    THEN (CHOOSE i \in 1..Len(seq) :
              seq[i] = x /\ \A j \in 1..(i - 1) : seq[j] # x) - 1
    ELSE -1

\* Array.prototype.splice(start, deleteCount, ...items); a negative start
\* counts from the end, and start is clamped to the array.
Splice(seq, start, deleteCount, items) ==
    LET len == Len(seq)
        from == IF start < 0
                THEN (IF len + start < 0 THEN 0 ELSE len + start)
                ELSE (IF start > len THEN len ELSE start)
        del == IF deleteCount > len - from THEN len - from ELSE deleteCount
    IN  SubSeq(seq, 1, from) \o items \o SubSeq(seq, from + del + 1, len)

----------------------------------------------------------------------------
(* The DOM operations used on pageContainer.                               *)

\* A node has one parent: inserting a node that is already a child moves it.
Detach(nodes, node) == SelectSeq(nodes, LAMBDA n : n # node)

\* Node.appendChild(node)
AppendChild(nodes, node) == Append(Detach(nodes, node), node)

\* Node.insertBefore(node, ref); a null or undefined ref appends.
InsertBefore(nodes, node, ref) ==
    IF ref = NullPage
    THEN AppendChild(nodes, node)
    ELSE LET rest == Detach(nodes, node)
         IN  Splice(rest, IndexOf(rest, ref), 0, <<node>>)

\* Node.removeChild(child); an undefined child is a TypeError.
RemoveChildThrows(nodes, child) == child = NullPage
RemoveChild(nodes, child) == Detach(nodes, child)

----------------------------------------------------------------------------
(* Pages and views.                                                        *)

\* new PageTitle(format)
PageTitle(format) == [format |-> format]

\* new FullPage(pageId, title, sourcePageId, dataset): a page without a view.
FullPage(pageId, title, sourcePageId) ==
    [pageId |-> pageId, title |-> title, sourcePageId |-> sourcePageId,
     dataView |-> NullView]

\* page.getHTMLRepresentation(): the DOM node of the page object.
GetHTMLRepresentation(page) == page

\* The BigTableView constructor: the fields a view keeps.
BigTableView(remoteObjectId, rowCount, page, viewKind) ==
    [viewKind |-> viewKind, remoteObjectId |-> remoteObjectId,
     rowCount |-> rowCount, page |-> page]

\* The session as one value: the fields of the DatasetView object.
This ==
    [heap |-> heap, allPages |-> allPages, children |-> children,
     pageCounter |-> pageCounter, selected |-> selected,
     selectedPageId |-> selectedPageId]

\* The state right after the DatasetView constructor.
NewDatasetView ==
    [heap |-> <<>>, allPages |-> <<>>, children |-> <<>>,
     pageCounter |-> 1, selected |-> NullView, selectedPageId |-> NullId]

\* The outcome of a method: the session after it, what it returned, what it threw.
Outcome(s, ret, err) == [s |-> s, ret |-> ret, err |-> err]

----------------------------------------------------------------------------
(* DatasetView methods, as functions from the session before the call to   *)
(* the outcome of the call.                                                *)

\* DatasetView.select
select(s, object, pageId) ==
    Outcome([s EXCEPT !.selected = object, !.selectedPageId = pageId],
            NullPage, NoError)

\* DatasetView.getSelected
getSelected(s) == [first |-> s.selected, second |-> s.selectedPageId]

\* DatasetView.findIndex: the index, and whether "Page not found" is thrown.
findIndex(s, page) == IndexOf(s.allPages, page)
findIndexThrows(s, page) == findIndex(s, page) < 0

\* insertAfter as it would be with the node put before children[index].
insertAfterBeforeIndex(s, toInsert, after) ==
    LET pageRepresentation == GetHTMLRepresentation(toInsert) IN
    IF after = NullPage
    THEN Outcome([s EXCEPT
                    !.children = AppendChild(@, pageRepresentation),
                    !.allPages = Append(@, toInsert)],
                 NullPage, NoError)
    ELSE IF findIndexThrows(s, after)
    THEN Outcome(s, NullPage, PageNotFound)
    ELSE LET index == findIndex(s, after) IN
         Outcome([s EXCEPT
                    !.allPages = Splice(@, index + 1, 0, <<toInsert>>),
                    !.children =
                        IF index >= Len(@) - 1
                        THEN AppendChild(@, pageRepresentation)
                        ELSE InsertBefore(@, pageRepresentation, At(@, index))],
                 NullPage, NoError)

\* DatasetView.insertAfter
insertAfter(s, toInsert, after) ==
    LET pageRepresentation == GetHTMLRepresentation(toInsert) IN
    IF after = NullPage
    THEN Outcome([s EXCEPT
                    !.children = AppendChild(@, pageRepresentation),
                    !.allPages = Append(@, toInsert)],
                 NullPage, NoError)
    ELSE IF findIndexThrows(s, after)
    THEN Outcome(s, NullPage, PageNotFound)
    ELSE LET index == findIndex(s, after) IN
         Outcome([s EXCEPT
                    !.allPages = Splice(@, index + 1, 0, <<toInsert>>),
                    !.children =
                        IF index >= Len(@) - 1
                        THEN AppendChild(@, pageRepresentation)
                        ELSE InsertBefore(@, pageRepresentation, At(@, index + 1))],
                 NullPage, NoError)

\* remove as it would be with indexOf in place of findIndex.
removeUnchecked(s, page) ==
    LET index == IndexOf(s.allPages, page)
        spliced == [s EXCEPT !.allPages = Splice(@, index, 1, <<>>)]
    IN  IF RemoveChildThrows(s.children, At(s.children, index))
        THEN Outcome(spliced, NullPage, DomTypeError)
        ELSE Outcome([spliced EXCEPT
                        !.children = RemoveChild(@, At(@, index))],
                     NullPage, NoError)

\* DatasetView.remove
remove(s, page) ==
    IF findIndexThrows(s, page)
    THEN Outcome(s, NullPage, PageNotFound)
    ELSE LET index == findIndex(s, page)
             spliced == [s EXCEPT !.allPages = Splice(@, index, 1, <<>>)]
         IN  IF RemoveChildThrows(s.children, At(s.children, index))
             THEN Outcome(spliced, NullPage, DomTypeError)
             ELSE Outcome([spliced EXCEPT
                             !.children = RemoveChild(@, At(@, index))],
                          NullPage, NoError)

\* shift as it would be without the test for the first page.
shiftNoUpGuard(s, page, up) ==
    IF findIndexThrows(s, page)
    THEN Outcome(s, NullPage, PageNotFound)
    ELSE LET index == findIndex(s, page) IN
         IF ~up /\ index = Len(s.allPages) - 1
         THEN Outcome(s, NullPage, NoError)
         ELSE LET newIndex == index + (IF up THEN -1 ELSE 1)
                  spliced == [s EXCEPT !.allPages =
                                 Splice(Splice(@, index, 1, <<>>),
                                        newIndex, 0, <<page>>)]
              IN  IF RemoveChildThrows(s.children, At(s.children, index))
                  THEN Outcome(spliced, NullPage, DomTypeError)
                  ELSE LET removed == RemoveChild(s.children, At(s.children, index))
                       IN  Outcome([spliced EXCEPT !.children =
                                       InsertBefore(removed,
                                                    GetHTMLRepresentation(page),
                                                    At(removed, newIndex))],
                                   NullPage, NoError)

\* shift as it would be with a page shifted down put two places further.
shiftDownByTwo(s, page, up) ==
    IF findIndexThrows(s, page)
    THEN Outcome(s, NullPage, PageNotFound)
    ELSE LET index == findIndex(s, page) IN
         IF up /\ index = 0
         THEN Outcome(s, NullPage, NoError)
         ELSE IF ~up /\ index = Len(s.allPages) - 1
         THEN Outcome(s, NullPage, NoError)
         ELSE LET newIndex == index + (IF up THEN -1 ELSE 2)
                  spliced == [s EXCEPT !.allPages =
                                 Splice(Splice(@, index, 1, <<>>),
                                        newIndex, 0, <<page>>)]
              IN  IF RemoveChildThrows(s.children, At(s.children, index))
                  THEN Outcome(spliced, NullPage, DomTypeError)
                  ELSE LET removed == RemoveChild(s.children, At(s.children, index))
                       IN  Outcome([spliced EXCEPT !.children =
                                       InsertBefore(removed,
                                                    GetHTMLRepresentation(page),
                                                    At(removed, newIndex))],
                                   NullPage, NoError)

\* DatasetView.shift; scrollIntoView only scrolls the window.
shift(s, page, up) ==
    IF findIndexThrows(s, page)
    THEN Outcome(s, NullPage, PageNotFound)
    ELSE LET index == findIndex(s, page) IN
         IF up /\ index = 0
         THEN Outcome(s, NullPage, NoError)
         ELSE IF ~up /\ index = Len(s.allPages) - 1
         THEN Outcome(s, NullPage, NoError)
         ELSE LET newIndex == index + (IF up THEN -1 ELSE 1)
                  spliced == [s EXCEPT !.allPages =
                                 Splice(Splice(@, index, 1, <<>>),
                                        newIndex, 0, <<page>>)]
              IN  IF RemoveChildThrows(s.children, At(s.children, index))
                  THEN Outcome(spliced, NullPage, DomTypeError)
                  ELSE LET removed == RemoveChild(s.children, At(s.children, index))
                       IN  Outcome([spliced EXCEPT !.children =
                                       InsertBefore(removed,
                                                    GetHTMLRepresentation(page),
                                                    At(removed, newIndex))],
                                   NullPage, NoError)

\* newPage as it would be with the page always put at the end.
newPageAtEnd(s, title, sourcePage) ==
    LET num == s.pageCounter
        page == Len(s.heap) + 1
        made == [s EXCEPT
                   !.pageCounter = @ + 1,
                   !.heap = Append(@, FullPage(num, title,
                                IF sourcePage # NullPage
                                THEN s.heap[sourcePage].pageId ELSE NullId))]
    IN  Outcome(insertAfter(made, page, NullPage).s, page, NoError)

\* newPage as it would be with the smallest id no page on display has.
newPageReusesId(s, title, sourcePage) ==
    LET shown == {s.heap[s.allPages[i]].pageId : i \in 1..Len(s.allPages)}
        num == CHOOSE n \in 1..s.pageCounter :
                   /\ n \notin shown
                   /\ \A m \in 1..(n - 1) : m \in shown
        page == Len(s.heap) + 1
        made == [s EXCEPT
                   !.pageCounter = IF num >= @ THEN num + 1 ELSE @,
                   !.heap = Append(@, FullPage(num, title,
                                IF sourcePage # NullPage
                                THEN s.heap[sourcePage].pageId ELSE NullId))]
        inserted == insertAfter(made, page, sourcePage)
    IN  IF inserted.err # NoError
        THEN Outcome(inserted.s, NullPage, inserted.err)
        ELSE Outcome(inserted.s, page, NoError)

\* newPage as it would be with the session put back when insertAfter throws.
newPageRollsBack(s, title, sourcePage) ==
    LET num == s.pageCounter
        page == Len(s.heap) + 1
        made == [s EXCEPT
                   !.pageCounter = @ + 1,
                   !.heap = Append(@, FullPage(num, title,
                                IF sourcePage # NullPage
                                THEN s.heap[sourcePage].pageId ELSE NullId))]
        inserted == insertAfter(made, page, sourcePage)
    IN  IF inserted.err # NoError
        THEN Outcome(s, NullPage, inserted.err)
        ELSE Outcome(inserted.s, page, NoError)

\* DatasetView.newPage; returns the new page, or throws what insertAfter throws.
newPage(s, title, sourcePage) ==
    LET num == s.pageCounter
        page == Len(s.heap) + 1
        made == [s EXCEPT
                   !.pageCounter = @ + 1,
                   !.heap = Append(@, FullPage(num, title,
                                IF sourcePage # NullPage
                                THEN s.heap[sourcePage].pageId ELSE NullId))]
        inserted == insertAfter(made, page, sourcePage)
    IN  IF inserted.err # NoError
        THEN Outcome(inserted.s, NullPage, inserted.err)
        ELSE Outcome(inserted.s, page, NoError)

\* reconstructPage as it would be with > in place of >=.
reconstructPageGreater(s, title, pageNo, sourcePageNo) ==
    LET page == Len(s.heap) + 1
        made == [s EXCEPT
                   !.heap = Append(@, FullPage(pageNo, title, sourcePageNo)),
                   !.pageCounter = IF pageNo > @ THEN pageNo + 1 ELSE @]
    IN  Outcome(insertAfter(made, page, NullPage).s, page, NoError)

\* DatasetView.reconstructPage
reconstructPage(s, title, pageNo, sourcePageNo) ==
    LET page == Len(s.heap) + 1
        made == [s EXCEPT
                   !.heap = Append(@, FullPage(pageNo, title, sourcePageNo)),
                   !.pageCounter = IF pageNo >= @ THEN pageNo + 1 ELSE @]
    IN  Outcome(insertAfter(made, page, NullPage).s, page, NoError)

----------------------------------------------------------------------------
(* Saving and restoring.                                                   *)

\* A JavaScript value that is null, an array, or some other object.
JsNull == [items |-> <<>>, type |-> "null"]
JsArray(items) == [items |-> items, type |-> "array"]
JsObject == [items |-> <<>>, type |-> "object"]

\* IViewSerialization; the schema and the fields of the subclasses of
\* BigTableView are written and read by the subclasses.
IViewSerialization(viewKind, pageId, sourcePageId, title, remoteObjectId, rowCount) ==
    [viewKind |-> viewKind, remoteObjectId |-> remoteObjectId, rowCount |-> rowCount,
     pageId |-> pageId, title |-> title, sourcePageId |-> sourcePageId]

\* BigTableView.serialize
viewSerialize(s, view) ==
    IViewSerialization(view.viewKind,
                       s.heap[view.page].pageId,
                       s.heap[view.page].sourcePageId,
                       s.heap[view.page].title.format,
                       view.remoteObjectId,
                       view.rowCount)

\* The view kinds for which reconstructView calls a reconstruct function.
ReconstructedKinds ==
    {"Table", "Histogram", "2DHistogram", "Heatmap", "Schema",
     "TrellisHistogram", "Trellis2DHistogram", "TrellisHeatmap",
     "HeavyHitters", "SVD Spectrum"}

\* TableView.reconstruct, HistogramView.reconstruct, ...: the view built from
\* a serialized view on the page given.
ViewReconstruct(vs, page) ==
    BigTableView(vs.remoteObjectId, vs.rowCount, page, vs.viewKind)

\* The switch of reconstructView: the view for the entry, or null.
reconstructSwitch(vs, page) ==
    IF vs.viewKind \in ReconstructedKinds
    THEN ViewReconstruct(vs, page)
    ELSE NullView

\* The check as it would be with rowCount forgotten.
missingFieldButRowCount(vs) ==
    \/ vs.pageId = NullId
    \/ vs.remoteObjectId = NullStr
    \/ vs.title = NullStr
    \/ vs.viewKind = NullStr

\* The check of reconstructView that a mandatory field is missing.
missingField(vs) ==
    \/ vs.pageId = NullId
    \/ vs.remoteObjectId = NullStr
    \/ vs.rowCount = NullId
    \/ vs.title = NullStr
    \/ vs.viewKind = NullStr

\* reconstructView as it would be with the kind looked at before the page
\* is made.
reconstructViewKindFirst(s, vs) ==
    IF missingField(vs) \/ vs.viewKind \notin ReconstructedKinds
    THEN Outcome(s, FALSE, NoError)
    ELSE LET made == reconstructPage(s, PageTitle(vs.title), vs.pageId, vs.sourcePageId)
             page == made.ret
         IN  Outcome([made.s EXCEPT !.heap[page].dataView = ViewReconstruct(vs, page)],
                     TRUE, NoError)

\* DatasetView.reconstructView; view.refresh() sends requests only.
reconstructView(s, vs) ==
    IF missingField(vs)
    THEN Outcome(s, FALSE, NoError)
    ELSE LET made == reconstructPage(s, PageTitle(vs.title), vs.pageId, vs.sourcePageId)
             page == made.ret
             view == reconstructSwitch(vs, page)
         IN  IF view # NullView
             THEN Outcome([made.s EXCEPT !.heap[page].dataView = view], TRUE, NoError)
             ELSE Outcome(made.s, FALSE, NoError)

\* The loop of DatasetView.reconstruct over views[i..].
RECURSIVE reconstructFrom(_, _, _)
reconstructFrom(s, views, i) ==
    IF i > Len(views)
    THEN Outcome(s, TRUE, NoError)
    ELSE LET one == reconstructView(s, views[i]) IN
         IF ~one.ret
         THEN Outcome(one.s, FALSE, NoError)
         ELSE reconstructFrom(one.s, views, i + 1)

\* DatasetView.reconstruct
reconstruct(s, obj) ==
    IF obj.views.type = "null"
    THEN Outcome(s, FALSE, NoError)
    ELSE IF obj.views.type # "array"
    THEN Outcome(s, FALSE, NoError)
    ELSE reconstructFrom(s, obj.views.items, 1)

\* The loop of DatasetView.serialize over allPages[i..].
RECURSIVE serializeFrom(_, _, _)
serializeFrom(s, i, views) ==
    IF i > Len(s.allPages)
    THEN views
    ELSE LET vs == s.heap[s.allPages[i]].dataView IN
         IF vs # NullView
         THEN serializeFrom(s, i + 1, Append(views, viewSerialize(s, vs)))
         ELSE serializeFrom(s, i + 1, views)

\* serialize as it would be with the Load views left out.
serializeWithoutLoad(s) ==
    [remoteObjectId |-> DatasetRemoteObjectId,
     views |-> JsArray(SelectSeq(serializeFrom(s, 1, <<>>),
                                 LAMBDA vs : vs.viewKind # "Load")),
     kind |-> "Saved dataset"]

\* DatasetView.serialize
serialize(s) ==
    [remoteObjectId |-> DatasetRemoteObjectId,
     views |-> JsArray(serializeFrom(s, 1, <<>>)),
     kind |-> "Saved dataset"]

----------------------------------------------------------------------------
(* The inputs of the calls.                                                *)

\* Page titles given to newPage.
Titles == {"a", "b"}

\* The views that receivers build and attach to pages: kind, remote object
\* and row count.
ViewTemplates ==
    {[viewKind |-> "Table", remoteObjectId |-> "r1", rowCount |-> 0],
     [viewKind |-> "Histogram", remoteObjectId |-> "r2", rowCount |-> 7],
     [viewKind |-> "Load", remoteObjectId |-> "r1", rowCount |-> 7]}

TableTemplate == [viewKind |-> "Table", remoteObjectId |-> "r1", rowCount |-> 0]

\* The fields reconstructView insists on.
MandatoryFields == {"pageId", "remoteObjectId", "rowCount", "title", "viewKind"}

\* A serialized view with one field missing.
Without(vs, field) ==
    [f \in DOMAIN vs |->
        IF f # field THEN vs[f]
        ELSE IF f \in {"pageId", "sourcePageId", "rowCount"} THEN NullId
        ELSE NullStr]

\* Serialized table views with every field but the source page, with the
\* page ids 0..MaxId.
TableViews ==
    {IViewSerialization("Table", id, NullId, "a", "r1", 0) : id \in 0..MaxId}

\* Serialized views with every mandatory field: of kinds that are
\* reconstructed, of kind Load and of no known kind, with and without a
\* source page.
CompleteViews ==
    {IViewSerialization("Table", id, src, "a", "r1", 0) :
        id \in {0, 1}, src \in {NullId, 1}}
    \cup {IViewSerialization("Histogram", 2, NullId, "b", "r2", 7),
          IViewSerialization("Load", 1, NullId, "a", "r1", 7),
          IViewSerialization("Bogus", 1, NullId, "a", "r2", 0)}

\* Serialized views that lack one mandatory field.
IncompleteViews ==
    {Without(IViewSerialization("Table", 1, NullId, "b", "r1", 7), f) :
        f \in MandatoryFields}

\* All sequences over S of length at most n.
RECURSIVE SeqsUpTo(_, _)
SeqsUpTo(S, n) ==
    IF n = 0 THEN {<<>>}
    ELSE LET shorter == SeqsUpTo(S, n - 1)
         IN  shorter \cup {Append(q, x) : q \in shorter, x \in S}

\* A saved dataset with the views given.
IDatasetSerialization(views) ==
    [remoteObjectId |-> DatasetRemoteObjectId, views |-> views,
     kind |-> "Saved dataset"]

\* Saved datasets of one well formed table view with any page id.  (A list
\* of such views leaves the session as the calls for its views one by one do.)
TableObjects == {IDatasetSerialization(JsArray(<<vs>>)) : vs \in TableViews}

\* Saved datasets of every shape: no views, views that are no array, and
\* arrays of views complete and incomplete, of kinds known and unknown.
SavedObjects ==
    {IDatasetSerialization(v) :
        v \in {JsNull, JsObject} \cup
              {JsArray(q) :
                 q \in SeqsUpTo(CompleteViews \cup IncompleteViews, MaxViews)}}

-----------------------------------------------------------------------------
(* Remote requests (tableTarget.ts).  A request is bound to the remote      *)
(* object it is created on and is sent, with its receiver, by invoke.       *)

\* The names of the enum CombineOperators, by value: CombineOperators[how].
CombineOperators == <<"Union", "Intersection", "Exclude", "Replace">>

\* new TableTargetAPI(remoteObjectId)
TableTargetAPI(remoteObjectId) == [remoteObjectId |-> remoteObjectId]

\* RemoteObject.createStreamingRpcRequest: a request on target.
createStreamingRpcRequest(target, method, args) ==
    [method |-> method, args |-> args, objectId |-> target.remoteObjectId]

createZipRequest(target, r) ==
    createStreamingRpcRequest(target, "zip", r.remoteObjectId)

createSetOperationRequest(target, setOp) ==
    createStreamingRpcRequest(target, "setOperation", CombineOperators[setOp + 1])

\* What a builder returns or throws.
Built(ret, err) == [ret |-> ret, err |-> err]

\* No request: the builder threw.
NoRequest == [method |-> NullStr, args |-> <<>>, objectId |-> NullStr]

\* assert(condition, message) of util.ts, when the condition is false.
AssertionFailed == "Assertion failed"

\* The constants of Resolution (ui/ui.ts) that rangesResolution reads.
Resolution == [minTrellisWindowSize |-> 2, maxBucketCount |-> 3, minDotSize |-> 2]

\* javaBridge.ts: whether a column kind holds strings.
kindIsString(kind) == kind \in {"String", "Json"}

\* Variant: a percent equal to the threshold still counts exactly.
createHeavyHittersRequestInclusive(target, columns, percent, totalRows, threshold, seed) ==
    IF percent <= threshold
    THEN createStreamingRpcRequest(target, "heavyHittersMG",
             [columns |-> columns, totalRows |-> totalRows, seed |-> seed,
              amount |-> percent])
    ELSE createStreamingRpcRequest(target, "heavyHittersSampling",
             [columns |-> columns, totalRows |-> totalRows, seed |-> seed,
              amount |-> percent])

\* TableTargetAPI.createHeavyHittersRequest; seed is what Seed.instance.get()
\* returns.
createHeavyHittersRequest(target, columns, percent, totalRows, threshold, seed) ==
    IF percent < threshold
    THEN createStreamingRpcRequest(target, "heavyHittersMG",
             [columns |-> columns, totalRows |-> totalRows, seed |-> seed,
              amount |-> percent])
    ELSE createStreamingRpcRequest(target, "heavyHittersSampling",
             [columns |-> columns, totalRows |-> totalRows, seed |-> seed,
              amount |-> percent])

\* Math.floor(a / b) for a >= 0 and b > 0.
Floor(a, b) == a \div b

\* Variant: a histogram asks for the width of the page.
rangesResolutionPageWidth(page, viewKind) ==
    IF viewKind = "Histogram" THEN Built(<<page.width>>, NoError)
    ELSE IF viewKind = "Heatmap"
    THEN Built(<<Floor(page.size.width, Resolution.minDotSize),
                 Floor(page.size.height, Resolution.minDotSize)>>, NoError)
    ELSE Built(<<>>, AssertionFailed)

\* TableTargetAPI.rangesResolution; page.width is page.getWidthInPixels() and
\* page.size is PlottingSurface.getDefaultCanvasSize(width).
rangesResolution(page, viewKind) ==
    LET width == page.width
        size == page.size
        maxWindows == Floor(width, Resolution.minTrellisWindowSize)
                        * Floor(size.height, Resolution.minTrellisWindowSize)
    IN  CASE viewKind = "Histogram" -> Built(<<size.width>>, NoError)
          [] viewKind = "2DHistogram" ->
                Built(<<width, Resolution.maxBucketCount>>, NoError)
          [] viewKind = "Heatmap" ->
                Built(<<Floor(size.width, Resolution.minDotSize),
                        Floor(size.height, Resolution.minDotSize)>>, NoError)
          [] viewKind \in {"Trellis2DHistogram", "TrellisHeatmap"} ->
                Built(<<width, Resolution.maxBucketCount, maxWindows>>, NoError)
          [] viewKind = "TrellisHistogram" -> Built(<<width, maxWindows>>, NoError)
          [] OTHER -> Built(<<>>, AssertionFailed)

\* The RangeArgs of the columns: seeds[i] is what Seed.instance.get() returns
\* for column i.
RangeArgs(cds, buckets, seeds) ==
    [i \in 1..Len(cds) |->
        [seed |-> IF kindIsString(cds[i].kind) THEN seeds[i] ELSE 0,
         cd |-> cds[i],
         stringsToSample |-> buckets[i]]]

\* Variant: the number of columns is not compared with the resolutions.
createDataRangesRequestUnchecked(target, cds, page, viewKind, seeds) ==
    LET buckets == rangesResolution(page, viewKind) IN
    IF buckets.err # NoError THEN Built(NoRequest, buckets.err)
    ELSE Built(createStreamingRpcRequest(target,
                   "getDataRanges" \o ToString(Len(cds)) \o "D",
                   [i \in 1..Len(cds) |->
                       [seed |-> IF kindIsString(cds[i].kind) THEN seeds[i] ELSE 0,
                        cd |-> cds[i],
                        stringsToSample |-> IF i <= Len(buckets.ret)
                                            THEN buckets.ret[i] ELSE NullId]]),
               NoError)

\* TableTargetAPI.createDataRangesRequest
createDataRangesRequest(target, cds, page, viewKind, seeds) ==
    LET buckets == rangesResolution(page, viewKind) IN
    IF buckets.err # NoError THEN Built(NoRequest, buckets.err)
    ELSE IF Len(buckets.ret) # Len(cds) THEN Built(NoRequest, AssertionFailed)
    ELSE Built(createStreamingRpcRequest(target,
                   "getDataRanges" \o ToString(Len(cds)) \o "D",
                   RangeArgs(cds, buckets.ret, seeds)),
               NoError)

\* The requests sent and the errors shown, as one value.
Traffic(sent, shown) == [requests |-> sent, reported |-> shown]

\* RpcRequest.invoke(receiver): the request is in flight; cause is the
\* request whose receiver sent it (0 when a view sent it).
invoke(b, rr, receiver, cause) ==
    [b EXCEPT !.requests = Append(@, [rr |-> rr, receiver |-> receiver,
                                      cause |-> cause, status |-> "inFlight",
                                      value |-> NullStr])]

\* FullPage.reportError(message)
reportError(b, page, message) ==
    [b EXCEPT !.reported = Append(@, [page |-> page, message |-> message])]

\* view.getCombineRenderer(title): a function of (page, operation) making the
\* receiver that shows the result as a view of the kind of `view`.
getCombineRenderer(view, title) ==
    [viewKind |-> view.viewKind, rowCount |-> view.rowCount, title |-> title]

\* renderer(page, operation)
CombineRenderer(renderer, page, operation) ==
    [viewKind |-> renderer.viewKind, rowCount |-> renderer.rowCount, page |-> page,
     title |-> renderer.title, kind |-> "CombineRenderer",
     operation |-> operation]

\* new ZipReceiver(page, operation, setOp, dataset, receiver)
ZipReceiver(page, operation, setOp, receiver) ==
    [page |-> page, kind |-> "ZipReceiver", setOp |-> setOp,
     receiver |-> receiver, operation |-> operation]

\* The session and the traffic after a call or an event.
After(s, b) == [s |-> s, b |-> b]

\* Variant: the zip is sent although nothing is selected.
combineUnchecked(s, b, view, how) ==
    LET r == getSelected(s)
        rr == createZipRequest(view, r.first)
        renderer == getCombineRenderer(view,
                        PageTitle("%p(" \o ToString(r.second) \o ")"
                                        \o CombineOperators[how + 1]))
    IN  After(s, invoke(b, rr, ZipReceiver(view.page, rr, how, renderer), 0))

\* BigTableView.combine(how), called on view.
combine(s, b, view, how) ==
    LET r == getSelected(s) IN
    IF r.first = NullView
    THEN After(s, reportError(b, view.page, "No original dataset selected"))
    ELSE LET rr == createZipRequest(view, r.first)
             renderer == getCombineRenderer(view,
                             PageTitle("%p(" \o ToString(r.second) \o ")"
                                             \o CombineOperators[how + 1]))
         IN  After(s, invoke(b, rr,
                             ZipReceiver(view.page, rr, how, renderer), 0))

\* BaseRenderer.run: the remote object of the value received, if any.
baseRun(value) ==
    IF value # NullStr THEN TableTargetAPI(value) ELSE TableTargetAPI(NullStr)

\* Variant: the set operation is sent twice.
zipRunTwice(s, b, i, value) ==
    LET zr == b.requests[i].receiver
        rr == createSetOperationRequest(baseRun(value), zr.setOp)
        rec == CombineRenderer(zr.receiver, zr.page, rr)
    IN  After(s, invoke(invoke(b, rr, rec, i), rr, rec, i))

\* Variant: the receiver of the zip already makes the page of the result.
zipRunMakesPage(s, b, i, value) ==
    LET zr == b.requests[i].receiver
        rr == createSetOperationRequest(baseRun(value), zr.setOp)
        rec == CombineRenderer(zr.receiver, zr.page, rr)
    IN  After(newPage(s, zr.receiver.title, zr.page).s, invoke(b, rr, rec, i))

\* Variant: the receiver of a zip does nothing when its page is no longer
\* on display.
zipRunIfDisplayed(s, b, i, value) ==
    LET zr == b.requests[i].receiver
        rr == createSetOperationRequest(baseRun(value), zr.setOp)
        rec == CombineRenderer(zr.receiver, zr.page, rr)
    IN  IF value = NullStr \/ IndexOf(s.allPages, zr.page) < 0
        THEN After(s, b)
        ELSE After(s, invoke(b, rr, rec, i))

\* Variant: the receiver of a zip titles the result by the page selected
\* when it runs.
zipRunTitlesBySelection(s, b, i, value) ==
    LET zr == b.requests[i].receiver
        rr == createSetOperationRequest(baseRun(value), zr.setOp)
        renderer == [zr.receiver EXCEPT !.title =
                        PageTitle("%p(" \o ToString(getSelected(s).second) \o ")"
                                        \o CombineOperators[zr.setOp + 1])]
        rec == CombineRenderer(renderer, zr.page, rr)
    IN  IF value = NullStr THEN After(s, b) ELSE After(s, invoke(b, rr, rec, i))

\* ZipReceiver.run, the receiver of request i having received value; with
\* no value, this.remoteObject is null and the call on it throws.
zipRun(s, b, i, value) ==
    LET zr == b.requests[i].receiver
        rr == createSetOperationRequest(baseRun(value), zr.setOp)
        rec == CombineRenderer(zr.receiver, zr.page, rr)
    IN  IF value = NullStr THEN After(s, b) ELSE After(s, invoke(b, rr, rec, i))

\* Request i ends: its status and the value it delivered.
Ended(b, i, status, value) ==
    [b EXCEPT !.requests[i].status = status, !.requests[i].value = value]

\* Variant: the receiver of a zip runs although the request failed.
onErrorRuns(s, b, i) ==
    IF b.requests[i].receiver.kind = "ZipReceiver"
    THEN zipRun(s, Ended(b, i, "failed", NullStr), i, "z1")
    ELSE After(s, reportError(Ended(b, i, "failed", NullStr),
                              b.requests[i].receiver.page, "error"))

\* OnCompleteReceiver.onError for request i: the error is shown on the
\* receiver's page; run() is not called.
onError(s, b, i) ==
    After(s, reportError(Ended(b, i, "failed", NullStr),
                         b.requests[i].receiver.page, "error"))

\* Request i is cancelled: its receiver is not called again.
cancel(s, b, i) == After(s, Ended(b, i, "cancelled", NullStr))

\* The run of the receiver that getCombineRenderer made: a new page after
\* the receiver's page, titled as the receiver says, showing a view of the
\* object received.
rendererRun(s, rec, value) ==
    LET made == newPage(s, rec.title, rec.page) IN
    IF made.err # NoError THEN made
    ELSE Outcome([made.s EXCEPT !.heap[made.ret].dataView =
                     BigTableView(value, rec.rowCount, made.ret, rec.viewKind)],
                 made.ret, NoError)

\* getDescription(this.loaded): the description of the data that was loaded.
LoadedDescription == "loaded"

\* TableTargetAPI.createGetSchemaRequest
createGetSchemaRequest(target) ==
    createStreamingRpcRequest(target, "getSchema", NullStr)

\* new SchemaReceiver(page, operation, remoteObject, dataset, false)
SchemaReceiver(page, operation) ==
    [page |-> page, kind |-> "SchemaReceiver", operation |-> operation]

\* Variant: the schema is asked of the selected object when there is one.
redisplayOfSelected(s, b) ==
    LET rr == createGetSchemaRequest(
                  IF s.selected # NullView THEN s.selected
                  ELSE TableTargetAPI(DatasetRemoteObjectId))
        made == newPage(s, PageTitle(LoadedDescription), NullPage)
    IN  After(made.s, invoke(b, rr, SchemaReceiver(made.ret, rr), 0))

\* DatasetView.redisplay; this.remoteObject is the TableTargetAPI of the
\* remoteObjectId the session was constructed with.
redisplay(s, b) ==
    LET rr == createGetSchemaRequest(TableTargetAPI(DatasetRemoteObjectId))
        made == newPage(s, PageTitle(LoadedDescription), NullPage)
    IN  After(made.s, invoke(b, rr, SchemaReceiver(made.ret, rr), 0))

----------------------------------------------------------------------------
(* The calls, as actions.  `last` keeps the call, its result and the        *)
(* session before it.                                                      *)

NoArgs == [page |-> NullPage, title |-> NullStr, after |-> NullPage,
           up |-> FALSE, obj |-> IDatasetSerialization(JsNull)]

Called(op, args, out, pre) ==
    [ret |-> out.ret, err |-> out.err, args |-> args, op |-> op, pre |-> pre]

\* The session becomes out.s.
Becomes(op, args, out) ==
    /\ heap' = out.s.heap
    /\ allPages' = out.s.allPages
    /\ children' = out.s.children
    /\ pageCounter' = out.s.pageCounter
    /\ selected' = out.s.selected
    /\ selectedPageId' = out.s.selectedPageId
    /\ last' = Called(op, args, out, This)
    /\ UNCHANGED <<requests, reported>>

\* Every page object constructed so far.
Pages == 1..Len(heap)

\* The pages on display.
Displayed == {allPages[i] : i \in 1..Len(allPages)}

Init ==
    /\ heap = NewDatasetView.heap
    /\ allPages = NewDatasetView.allPages
    /\ children = NewDatasetView.children
    /\ pageCounter = NewDatasetView.pageCounter
    /\ selected = NewDatasetView.selected
    /\ selectedPageId = NewDatasetView.selectedPageId
    /\ last = Called("new", NoArgs, Outcome(NewDatasetView, NullPage, NoError),
                     NewDatasetView)
    /\ requests = <<>>
    /\ reported = <<>>

\* newPage(title, sourcePage), with any page or null as the source.
NewPage(titles) ==
    /\ Len(heap) < MaxPages
    /\ pageCounter <= MaxCounter
    /\ \E title \in titles, sourcePage \in Pages \cup {NullPage} :
          Becomes("newPage",
                  [NoArgs EXCEPT !.title = title, !.after = sourcePage],
                  newPage(This, PageTitle(title), sourcePage))

\* insertAfter(toInsert, after), with a page that is not on display.
InsertAfter ==
    \E toInsert \in Pages \ Displayed, after \in Pages \cup {NullPage} :
        Becomes("insertAfter",
                [NoArgs EXCEPT !.page = toInsert, !.after = after],
                insertAfter(This, toInsert, after))

\* remove(page), with any page.
Remove ==
    \E page \in Pages :
        Becomes("remove", [NoArgs EXCEPT !.page = page], remove(This, page))

\* shift(page, up), with any page.
Shift ==
    \E page \in Pages, up \in BOOLEAN :
        Becomes("shift", [NoArgs EXCEPT !.page = page, !.up = up],
                shift(This, page, up))

\* A receiver builds a view for a page on display that shows none, and
\* attaches it to the page.
SetDataView(templates) ==
    \E page \in Displayed, k \in templates :
        /\ heap[page].dataView = NullView
        /\ Becomes("setDataView", [NoArgs EXCEPT !.page = page],
                   Outcome([This EXCEPT !.heap[page].dataView =
                               BigTableView(k.remoteObjectId, k.rowCount, page,
                                            k.viewKind)],
                           NullPage, NoError))

\* BigTableView.selectCurrent, on the view of a page on display.
SelectCurrent ==
    \E page \in Displayed :
        /\ heap[page].dataView # NullView
        /\ LET view == heap[page].dataView IN
           Becomes("select", [NoArgs EXCEPT !.page = page],
                   select(This, view, heap[view.page].pageId))

\* reconstruct(obj) on the session as it is.
Reconstruct(objs) ==
    \E obj \in objs :
        /\ Len(heap) + Len(obj.views.items) <= MaxPages
        /\ Becomes("reconstruct", [NoArgs EXCEPT !.obj = obj],
                   reconstruct(This, obj))

\* reconstruct(obj) on a session just constructed, as when a saved file is
\* loaded.
Load(objs) ==
    /\ heap = <<>>
    /\ Reconstruct(objs)

\* reconstructView(vs) on the session as it is; the entry is kept as the
\* only view of args.obj.
ReconstructView(entries) ==
    /\ Len(heap) < MaxPages
    /\ \E vs \in entries :
          Becomes("reconstructView",
                  [NoArgs EXCEPT !.obj = IDatasetSerialization(JsArray(<<vs>>))],
                  reconstructView(This, vs))

\* serialize()
Serialize ==
    Becomes("serialize", NoArgs, Outcome(This, serialize(This), NoError))

\* The session is saved, and the saved object is reconstructed in a
\* DatasetView just constructed.
Restore ==
    LET obj == serialize(This) IN
    Becomes("restore", [NoArgs EXCEPT !.obj = obj],
            reconstruct(NewDatasetView, obj))

\* A saved session of two pages whose views show different remote objects.
CombineObjects ==
    {IDatasetSerialization(JsArray(
        <<IViewSerialization("Table", 0, NullId, "a", "r1", 0),
          IViewSerialization("Histogram", 1, NullId, "b", "r2", 7)>>))}

\* The remote objects the service hands out for a zip and for a set operation.
ZipObjectIds == {"z1"}
SetOperationObjectIds == {"s1"}

\* A call or an event of the combine protocol: `was` is the traffic before it.
Did(op, args, out) ==
    [ret |-> out.ret, err |-> out.err, args |-> args, op |-> op, pre |-> This,
     was |-> Traffic(requests, reported)]

\* The session and the traffic become w.s and w.b.
Happens(op, args, w, ret, err) ==
    /\ heap' = w.s.heap
    /\ allPages' = w.s.allPages
    /\ children' = w.s.children
    /\ pageCounter' = w.s.pageCounter
    /\ selected' = w.s.selected
    /\ selectedPageId' = w.s.selectedPageId
    /\ requests' = w.b.requests
    /\ reported' = w.b.reported
    /\ last' = Did(op, args, Outcome(w.s, ret, err))

\* The requests a view sent, i.e. the zip requests of the chains.
Zips(sent) == {i \in 1..Len(sent) : sent[i].cause = 0}

\* The requests in flight whose receiver is of a kind.
InFlight(kind) ==
    {i \in 1..Len(requests) : /\ requests[i].status = "inFlight"
                              /\ requests[i].receiver.kind = kind}

\* The user chooses combine(how) on the view of a page on display, while
\* fewer than `chains` combines were started.
CombineWithin(ops, chains) ==
    /\ Cardinality(Zips(requests)) < chains
    /\ Len(reported) < chains
    /\ \E page \in Displayed, how \in ops :
          /\ heap[page].dataView # NullView
          /\ Happens("combine", [page |-> page, how |-> how],
                     combine(This, Traffic(requests, reported),
                             heap[page].dataView, how),
                     NullPage, NoError)

\* The pages whose view has a zip request in flight.
Invokers ==
    {p \in Pages : \E i \in InFlight("ZipReceiver") : requests[i].receiver.page = p}

\* remove(page), with a page whose combine is under way.
RemoveInvoker ==
    \E page \in Invokers :
        Becomes("remove", [NoArgs EXCEPT !.page = page], remove(This, page))

\* shift(page, up), with a page whose combine is under way.
ShiftInvoker ==
    \E page \in Invokers, up \in BOOLEAN :
        Becomes("shift", [NoArgs EXCEPT !.page = page, !.up = up],
                shift(This, page, up))

Combine(ops) == CombineWithin(ops, MaxChains)

\* A zip request succeeds with a value: its receiver runs.
ZipSucceeds ==
    \E i \in InFlight("ZipReceiver"), value \in ZipObjectIds :
        Happens("zipSucceeds", [value |-> value, request |-> i],
                zipRun(This, Ended(Traffic(requests, reported), i, "succeeded",
                                   value), i, value),
                NullPage, NoError)

\* A setOperation request succeeds with a value: the renderer runs.
SetOperationSucceeds ==
    /\ Len(heap) < MaxPages
    /\ pageCounter <= MaxCounter
    /\ \E i \in InFlight("CombineRenderer"), value \in SetOperationObjectIds :
          LET out == rendererRun(This, requests[i].receiver, value) IN
          Happens("setOperationSucceeds", [value |-> value, request |-> i],
                  After(out.s, Ended(Traffic(requests, reported), i,
                                     "succeeded", value)),
                  out.ret, out.err)

\* A request in flight ends with an error.
Fails ==
    \E i \in InFlight("ZipReceiver") \cup InFlight("CombineRenderer") :
        Happens("fails", [value |-> NullStr, request |-> i],
                onError(This, Traffic(requests, reported), i),
                NullPage, NoError)

\* A request in flight is cancelled.
Cancels ==
    \E i \in InFlight("ZipReceiver") \cup InFlight("CombineRenderer") :
        Happens("cancels", [value |-> NullStr, request |-> i],
                cancel(This, Traffic(requests, reported), i),
                NullPage, NoError)

\* redisplay()
Redisplay ==
    /\ Len(heap) < MaxPages
    /\ pageCounter <= MaxCounter
    /\ Happens("redisplay", NoArgs,
               redisplay(This, Traffic(requests, reported)), NullPage, NoError)

\* The inputs of the request builders.
ColumnDescriptions ==
    {[kind |-> "String", name |-> "c1"], [kind |-> "Integer", name |-> "c2"]}

ColumnLists == UNION {[1..n -> ColumnDescriptions] : n \in 0..MaxColumns}

PlotPages ==
    {[width |-> w, size |-> [width |-> sw, height |-> sh]] :
        w \in {5}, sw \in {3, 4}, sh \in {2, 3}}

ViewKinds ==
    {"Histogram", "2DHistogram", "Heatmap", "TrellisHistogram",
     "Trellis2DHistogram", "TrellisHeatmap", "Table"}

Seeds == {9}

\* A call of a request builder: the session stays as it is.
Builds(op, args, out) ==
    /\ last' = [ret |-> out.ret, err |-> out.err, args |-> args, op |-> op,
                pre |-> This]
    /\ UNCHANGED <<heap, allPages, children, pageCounter, selected,
                   selectedPageId, requests, reported>>

CreateHeavyHittersRequest ==
    \E columns \in ColumnLists, percent \in 0..3, totalRows \in {7},
       threshold \in {1, 2}, seed \in Seeds :
        Builds("createHeavyHittersRequest",
               [columns |-> columns, percent |-> percent,
                totalRows |-> totalRows, threshold |-> threshold],
               Built(createHeavyHittersRequest(TableTargetAPI("r1"), columns,
                         percent, totalRows, threshold, seed), NoError))

RangesResolution ==
    \E page \in PlotPages, viewKind \in ViewKinds :
        Builds("rangesResolution", [viewKind |-> viewKind, page |-> page],
               rangesResolution(page, viewKind))

CreateDataRangesRequest ==
    \E cds \in ColumnLists, page \in PlotPages, viewKind \in ViewKinds,
       seed \in Seeds :
        Builds("createDataRangesRequest",
               [viewKind |-> viewKind, page |-> page, cds |-> cds],
               createDataRangesRequest(TableTargetAPI("r1"), cds, page,
                   viewKind, [i \in 1..Len(cds) |-> seed]))

\* The page list under every edit, with pages reconstructed from saved tables.
Next ==
    \/ NewPage({"a"})
    \/ InsertAfter
    \/ Remove
    \/ Shift
    \/ Reconstruct(TableObjects)

Spec == Init /\ [][Next]_vars

\* The page list under the edits alone.
NextEdit ==
    \/ NewPage({"a"})
    \/ InsertAfter
    \/ Remove
    \/ Shift

SpecEdit == Init /\ [][NextEdit]_vars

\* Pages that get views, views that get selected, pages that move and go.
NextSelect ==
    \/ NewPage({"a"})
    \/ SetDataView({TableTemplate})
    \/ SelectCurrent
    \/ Remove
    \/ Shift

SpecSelect == Init /\ [][NextSelect]_vars

\* Sessions of pages with views of every kind, saved and restored.
NextSave ==
    \/ NewPage(Titles)
    \/ SetDataView(ViewTemplates)
    \/ Serialize
    \/ Restore

SpecSave == Init /\ [][NextSave]_vars

\* Saved datasets of every shape, reconstructed.
NextLoad ==
    \/ NewPage({"a"})
    \/ Reconstruct(SavedObjects)

SpecLoad == Init /\ [][NextLoad]_vars

\* Sessions of pages made and reconstructed, then saved.
NextSaved ==
    \/ NewPage({"a"})
    \/ SetDataView({TableTemplate})
    \/ Reconstruct(TableObjects)
    \/ Remove
    \/ Serialize

SpecSaved == Init /\ [][NextSaved]_vars

\* Sessions where views are selected and combined.
NextCombine ==
    \/ Reconstruct(CombineObjects)
    \/ SelectCurrent
    \/ Combine({0, 2})
    \/ ZipSucceeds
    \/ SetOperationSucceeds
    \/ Fails
    \/ Cancels

SpecCombine == Init /\ [][NextCombine]_vars

\* The request builders of a remote table, called with every input.
NextBuild ==
    \/ CreateHeavyHittersRequest
    \/ RangesResolution
    \/ CreateDataRangesRequest

SpecBuild == Init /\ [][NextBuild]_vars

\* Sessions with and without pages, views and a selection, displayed again.
NextRedisplay ==
    \/ NewPage({"a"})
    \/ Reconstruct(CombineObjects)
    \/ SelectCurrent
    \/ Remove
    \/ Redisplay

SpecRedisplay == Init /\ [][NextRedisplay]_vars

\* Pages that are removed or moved while the requests of a combine are in
\* flight.
NextDetach ==
    \/ Load(CombineObjects)
    \/ SelectCurrent
    \/ Combine({0, 2})
    \/ RemoveInvoker
    \/ ShiftInvoker
    \/ ZipSucceeds

SpecDetach == Init /\ [][NextDetach]_vars

\* Combines that overlap, with the selection changed while they are under way.
NextReselect ==
    \/ Load(CombineObjects)
    \/ SelectCurrent
    \/ CombineWithin({0, 2}, MaxOverlapping)
    \/ ZipSucceeds

SpecReselect == Init /\ [][NextReselect]_vars

\* Single entries, complete and incomplete, of every kind, reconstructed.
NextView ==
    \/ NewPage({"a"})
    \/ ReconstructView(CompleteViews \cup IncompleteViews)

SpecView == Init /\ [][NextView]_vars

\* Pages made, reconstructed and removed: the ids given over a session.
NextIds ==
    \/ NewPage({"a"})
    \/ Reconstruct(TableObjects)
    \/ Remove

SpecIds == Init /\ [][NextIds]_vars

\* A saved session loaded or not, pages made, moved and removed: all a page
\* list goes through where pages come from newPage and from a loaded file.
NextLost ==
    \/ Load(CombineObjects)
    \/ NewPage({"a"})
    \/ Remove
    \/ Shift

SpecLost == Init /\ [][NextLost]_vars

----------------------------------------------------------------------------
(* The properties.                                                         *)

\* The pageId of the page at position i of allPages.
IdAt(i) == heap[allPages[i]].pageId

\* The page a call was about: `after` for insertAfter, `page` otherwise.
Looked == IF last.op = "insertAfter" THEN last.args.after ELSE last.args.page

\* Whether page p was in the list before the last call.
WasDisplayed(p) == \E i \in 1..Len(last.pre.allPages) : last.pre.allPages[i] = p

\* C1: pageCounter is strictly greater than the pageId of every page of
\* allPages, and of every page the session ever constructed.
C1_CounterAboveEveryId == \A p \in Pages : heap[p].pageId < pageCounter

\* C1 happens: a page was reconstructed with the pageId the counter stood
\* at, below another page.
C1_Witness ==
    /\ last.op = "reconstruct"
    /\ last.ret = TRUE
    /\ Len(allPages) >= 2
    /\ IdAt(Len(allPages)) = last.pre.pageCounter

\* C2: if a selected object is present, selectedPageId is the pageId of a
\* page that is in allPages.
C2_SelectedPageIsDisplayed ==
    selected # NullView => \E p \in Displayed : heap[p].pageId = selectedPageId

\* C3: no two pages of allPages have the same pageId.
C3_PageIdsUnique ==
    \A i, j \in 1..Len(allPages) : i # j => IdAt(i) # IdAt(j)

C5_NewPagePlacement ==
    (last.op = "newPage" /\ last.err = NoError) =>
        LET pre == last.pre
            page == last.ret
            source == last.args.after
            at == IF source = NullPage
                  THEN Len(pre.allPages)
                  ELSE IndexOf(pre.allPages, source) + 1
        IN  /\ heap[page].pageId = pre.pageCounter
            /\ heap[page].sourcePageId =
                  (IF source = NullPage THEN NullId ELSE pre.heap[source].pageId)
            /\ Len(allPages) = Len(pre.allPages) + 1
            /\ At(allPages, at) = page
            /\ (source = NullPage => at = Len(allPages) - 1)
            /\ \A k \in 0..(Len(pre.allPages) - 1) :
                  At(pre.allPages, k) = At(allPages, IF k < at THEN k ELSE k + 1)
            /\ pageCounter = pre.pageCounter + 1

\* C5 happens: a new page was put after a source that was not the last page.
C5_Witness ==
    /\ last.op = "newPage"
    /\ last.err = NoError
    /\ last.args.after # NullPage
    /\ IndexOf(last.pre.allPages, last.args.after) < Len(last.pre.allPages) - 1

\* C6: shift up of the first page and shift down of the last page leave the
\* session as it was: allPages, the screen, pageCounter and the selection.
C6_ShiftAtBoundary ==
    (/\ last.op = "shift"
     /\ last.pre.allPages # <<>>
     /\ \/ last.args.up /\ last.pre.allPages[1] = last.args.page
        \/ ~last.args.up
              /\ last.pre.allPages[Len(last.pre.allPages)] = last.args.page)
    => (last.err = NoError /\ This = last.pre)

\* C6 happens: the first of several pages was shifted up while a view was
\* selected.
C6_Witness ==
    /\ last.op = "shift"
    /\ last.args.up
    /\ Len(last.pre.allPages) >= 2
    /\ last.pre.allPages[1] = last.args.page
    /\ selected # NullView

\* C7: insertAfter with an `after` that is not null, remove and shift, given
\* a page that is not in allPages, fail with "Page not found" and leave
\* allPages and the screen as they were.
C7_PageNotFound ==
    (/\ last.op \in {"insertAfter", "remove", "shift"}
     /\ Looked # NullPage
     /\ ~WasDisplayed(Looked))
    => /\ last.err = PageNotFound
       /\ allPages = last.pre.allPages
       /\ children = last.pre.children

\* C7 happens: remove was given a page that is not in the list of pages,
\* which is not empty.
C7_Witness ==
    /\ last.op = "remove"
    /\ ~WasDisplayed(last.args.page)
    /\ last.pre.allPages # <<>>

\* The pages of allPages that hold a view, in the order of allPages.
Holding == SelectSeq(allPages, LAMBDA p : heap[p].dataView # NullView)

\* C8: serialize returns kind "Saved dataset", the remoteObjectId of the
\* session and one entry for each page of allPages that holds a view, in the
\* order of allPages, and leaves the session as it was.
C8_Serialize ==
    last.op = "serialize" =>
        /\ last.ret.kind = "Saved dataset"
        /\ last.ret.remoteObjectId = DatasetRemoteObjectId
        /\ last.ret.views.type = "array"
        /\ Len(last.ret.views.items) = Len(Holding)
        /\ \A i \in 1..Len(Holding) :
              LET vs == last.ret.views.items[i]
                  page == heap[Holding[i]]
              IN  /\ vs.pageId = page.pageId
                  /\ vs.sourcePageId = page.sourcePageId
                  /\ vs.title = page.title.format
                  /\ vs.viewKind = page.dataView.viewKind
                  /\ vs.remoteObjectId = page.dataView.remoteObjectId
                  /\ vs.rowCount = page.dataView.rowCount
        /\ This = last.pre

\* C8 happens: three pages were serialized, the one in the middle without a
\* view, one of the others with a Load view.
C8_Witness ==
    /\ last.op = "serialize"
    /\ Len(allPages) = 3
    /\ heap[allPages[2]].dataView = NullView
    /\ Len(last.ret.views.items) = 2
    /\ \E i \in 1..2 : last.ret.views.items[i].viewKind = "Load"

\* Whether page q of the session is page p of the session before, with the
\* same view data.
SamePage(q, p) ==
    /\ heap[q].pageId = last.pre.heap[p].pageId
    /\ heap[q].sourcePageId = last.pre.heap[p].sourcePageId
    /\ heap[q].title = last.pre.heap[p].title
    /\ heap[q].dataView.remoteObjectId = last.pre.heap[p].dataView.remoteObjectId
    /\ heap[q].dataView.rowCount = last.pre.heap[p].dataView.rowCount

\* The pages of before that held a view of a kind other than Load.
HeldReconstructible ==
    SelectSeq(last.pre.allPages,
              LAMBDA p : /\ last.pre.heap[p].dataView # NullView
                         /\ last.pre.heap[p].dataView.viewKind # "Load")

\* C9: serialize and then reconstruct in a new session gives, for every page
\* that held a view of a kind other than Load, a page with the same pageId,
\* sourcePageId, title, remoteObjectId and rowCount, in the same relative
\* order, wherever the pages with Load views are.
C9_RoundTrip ==
    last.op = "restore" =>
        \E f \in [1..Len(HeldReconstructible) -> 1..Len(allPages)] :
            /\ \A i, j \in DOMAIN f : i < j => f[i] < f[j]
            /\ \A i \in DOMAIN f : SamePage(allPages[f[i]], HeldReconstructible[i])

\* Whether a serialized view lacks the field.
Lacks(vs, field) ==
    IF field \in {"pageId", "rowCount", "sourcePageId"}
    THEN vs[field] = NullId
    ELSE vs[field] = NullStr

\* C10: reconstruct returns false when views is missing or is no array, and
\* when an entry lacks pageId, remoteObjectId, rowCount, title or viewKind;
\* entries that only lack sourcePageId do not make it fail.
C10_ReconstructFails ==
    last.op = "reconstruct" =>
        LET views == last.args.obj.views IN
        /\ views.type # "array" => last.ret = FALSE
        /\ (\E i \in 1..Len(views.items), f \in MandatoryFields :
                Lacks(views.items[i], f)) => last.ret = FALSE
        /\ (/\ views.type = "array"
            /\ \A i \in 1..Len(views.items) :
                  /\ \A f \in MandatoryFields : ~Lacks(views.items[i], f)
                  /\ views.items[i].viewKind \in ReconstructedKinds)
           => last.ret = TRUE

\* C10 happens: of two entries the first lacks nothing but sourcePageId and
\* the second lacks rowCount.
C10_Witness ==
    /\ last.op = "reconstruct"
    /\ Len(last.args.obj.views.items) = 2
    /\ Lacks(last.args.obj.views.items[1], "sourcePageId")
    /\ Lacks(last.args.obj.views.items[2], "rowCount")
    /\ Len(allPages) = Len(last.pre.allPages) + 1
    /\ last.ret = FALSE

\* The tags reconstructView has a case for.
RecognizedKinds == ReconstructedKinds \cup {"Load"}

\* Whether an entry has a tag that is not recognized or lacks a mandatory field.
Unacceptable(vs) ==
    \/ \E f \in MandatoryFields : Lacks(vs, f)
    \/ vs.viewKind \notin RecognizedKinds

\* The pages in allPages that were not there before the last call.
Added == SubSeq(allPages, Len(last.pre.allPages) + 1, Len(allPages))

\* C11: reconstruct takes the entries in order and stops at the first one
\* with a tag that is not recognized or without a mandatory field: it returns
\* false, no page is made for a later entry, and the pages made for the
\* entries before it are in allPages, in order, each with its view.
C11_StopsAtFirstBadEntry ==
    (/\ last.op = "reconstruct"
     /\ last.args.obj.views.type = "array"
     /\ \E i \in 1..Len(last.args.obj.views.items) :
           Unacceptable(last.args.obj.views.items[i]))
    => LET items == last.args.obj.views.items
           bad == CHOOSE i \in 1..Len(items) :
                      /\ Unacceptable(items[i])
                      /\ \A j \in 1..(i - 1) : ~Unacceptable(items[j])
       IN  /\ last.ret = FALSE
           /\ SubSeq(allPages, 1, Len(last.pre.allPages)) = last.pre.allPages
           /\ Len(Added) \in {bad - 1, bad}
           /\ \A i \in 1..(bad - 1) :
                 /\ heap[Added[i]].pageId = items[i].pageId
                 /\ heap[Added[i]].dataView # NullView

\* C12: the views of a serialized session have pageIds that differ from
\* each other.
C12_SerializedIdsUnique ==
    last.op = "serialize" =>
        \A i, j \in 1..Len(last.ret.views.items) :
            i # j => last.ret.views.items[i].pageId # last.ret.views.items[j].pageId

\* The requests of a method among those sent.
Requests(method) ==
    {i \in 1..Len(requests) : requests[i].rr.method = method}

\* C13: combine on a view while nothing is selected shows an error on the
\* view's page, sends no request, and leaves the pages and the selection as
\* they were.
C13_CombineWithoutSelection ==
    (last.op = "combine" /\ last.pre.selected = NullView)
    => /\ reported = Append(last.was.reported,
                            [page |-> last.args.page,
                             message |-> "No original dataset selected"])
       /\ requests = last.was.requests
       /\ This = last.pre

C13_Witness ==
    /\ last.op = "combine"
    /\ last.pre.selected = NullView
    /\ Len(reported) = 1

\* C14: combine(op) with an object selected sends one zip request and
\* nothing else; a setOperation request is sent only by the receiver of a zip
\* that has succeeded, once for that zip, with the name of op as argument and
\* on the object the zip returned, which is neither of the two objects zipped.
C14_ZipThenSetOperation ==
    /\ (last.op = "combine" /\ last.pre.selected # NullView)
       => /\ Len(requests) = Len(last.was.requests) + 1
          /\ SubSeq(requests, 1, Len(last.was.requests)) = last.was.requests
          /\ requests[Len(requests)].rr.method = "zip"
          /\ requests[Len(requests)].status = "inFlight"
          /\ requests[Len(requests)].receiver.setOp = last.args.how
          /\ reported = last.was.reported
    /\ \A j \in Requests("setOperation") :
          LET zip == requests[requests[j].cause] IN
          /\ requests[j].cause \in Requests("zip")
          /\ requests[j].cause < j
          /\ zip.status = "succeeded"
          /\ requests[j].rr.objectId = zip.value
          /\ requests[j].rr.objectId \notin {zip.rr.objectId, zip.rr.args}
          /\ requests[j].rr.args = CombineOperators[zip.receiver.setOp + 1]
    /\ \A i \in Requests("zip") :
          /\ requests[i].cause = 0
          /\ Cardinality({j \in Requests("setOperation") : requests[j].cause = i})
               = IF requests[i].status = "succeeded" THEN 1 ELSE 0

C14_Witness ==
    \E j \in Requests("setOperation") :
        /\ requests[j].rr.args = "Exclude"
        /\ requests[j].rr.objectId = "z1"
        /\ requests[requests[j].cause].receiver.setOp = 2

\* C15: when the zip request of a chain was cancelled or failed, no
\* setOperation request, and no other request, is sent for that chain.
C15_NoSetOperationAfterFailure ==
    \A i \in Requests("zip") :
        requests[i].status \in {"cancelled", "failed"}
        => \A j \in 1..Len(requests) : requests[j].cause # i

C15_Witness ==
    /\ last.op \in {"fails", "cancels"}
    /\ last.args.request \in Requests("zip")
    /\ requests[last.args.request].status \in {"cancelled", "failed"}

\* C16: combine, the success of a zip, and the failure or cancellation of a
\* request leave allPages as it was; only the success of a setOperation
\* request adds a page.
C16_PagesOnlyWhenDone ==
    /\ last.op \in {"combine", "zipSucceeds", "fails", "cancels"}
       => /\ allPages = last.pre.allPages
          /\ heap = last.pre.heap
          /\ children = last.pre.children
    /\ (last.op = "setOperationSucceeds" /\ last.err = NoError)
       => /\ Len(allPages) = Len(last.pre.allPages) + 1
          /\ \A p \in Pages : WasDisplayed(p) => p \in Displayed

C16_Witness ==
    /\ last.op = "zipSucceeds"
    /\ \E j \in Requests("setOperation") : requests[j].status = "inFlight"
    /\ allPages = last.pre.allPages

\* C18: createHeavyHittersRequest names the request heavyHittersMG when
\* percent < threshold and heavyHittersSampling when percent >= threshold;
\* either way the arguments hold the columns, amount = percent and totalRows.
C18_HeavyHittersByThreshold ==
    last.op = "createHeavyHittersRequest" =>
        /\ last.args.percent < last.args.threshold
           => last.ret.method = "heavyHittersMG"
        /\ last.args.percent >= last.args.threshold
           => last.ret.method = "heavyHittersSampling"
        /\ last.ret.args.columns = last.args.columns
        /\ last.ret.args.amount = last.args.percent
        /\ last.ret.args.totalRows = last.args.totalRows

C18_Witness ==
    /\ last.op = "createHeavyHittersRequest"
    /\ last.args.percent = last.args.threshold
    /\ Len(last.args.columns) > 0
    /\ last.ret.method = "heavyHittersSampling"

\* The view kinds rangesResolution has a resolution for, with its length.
ResolutionLength ==
    [k \in {"Histogram", "2DHistogram", "Heatmap", "TrellisHistogram",
            "Trellis2DHistogram", "TrellisHeatmap"} |->
        CASE k = "Histogram" -> 1
          [] k \in {"2DHistogram", "Heatmap", "TrellisHistogram"} -> 2
          [] OTHER -> 3]

\* q is the floor of a / b.
IsFloor(q, a, b) == q * b <= a /\ a < (q + 1) * b

\* C19: rangesResolution returns the canvas width alone for a Histogram, the
\* floors of the canvas width and height over minDotSize for a Heatmap, and
\* fails for a view kind outside the six it knows.
C19_RangesResolution ==
    last.op = "rangesResolution" =>
        /\ last.args.viewKind = "Histogram"
           => /\ last.err = NoError
              /\ last.ret = <<last.args.page.size.width>>
        /\ last.args.viewKind = "Heatmap"
           => /\ last.err = NoError
              /\ Len(last.ret) = 2
              /\ IsFloor(last.ret[1], last.args.page.size.width,
                         Resolution.minDotSize)
              /\ IsFloor(last.ret[2], last.args.page.size.height,
                         Resolution.minDotSize)
        /\ last.args.viewKind \notin DOMAIN ResolutionLength
           => last.err # NoError

C19_Witness ==
    /\ last.op = "rangesResolution"
    /\ last.args.viewKind = "Histogram"
    /\ last.args.page.size.width # last.args.page.width
    /\ last.err = NoError

\* C20: createDataRangesRequest succeeds exactly when the number of columns
\* is the length of the resolution of the view kind; the request is then
\* named getDataRanges1D, 2D or 3D after the number of columns, and its i-th
\* argument holds the i-th column, the i-th resolution as stringsToSample, and
\* seed 0 when the column does not hold strings.
C20_DataRangesRequest ==
    last.op = "createDataRangesRequest" =>
        LET cds == last.args.cds
            kind == last.args.viewKind
            n == Len(cds)
        IN  /\ last.err = NoError
               <=> (kind \in DOMAIN ResolutionLength /\ n = ResolutionLength[kind])
            /\ last.err = NoError
               => /\ n \in {1, 2, 3}
                  /\ last.ret.method = <<"getDataRanges1D", "getDataRanges2D",
                                         "getDataRanges3D">>[n]
                  /\ Len(last.ret.args) = n
                  /\ \A i \in 1..n :
                        /\ last.ret.args[i].cd = cds[i]
                        /\ last.ret.args[i].stringsToSample
                             = rangesResolution(last.args.page, kind).ret[i]
                        /\ cds[i].kind \notin {"String", "Json"}
                           => last.ret.args[i].seed = 0

C20_Witness ==
    /\ last.op = "createDataRangesRequest"
    /\ last.err = NoError
    /\ Len(last.args.cds) = 3
    /\ \E i \in 1..3 : last.args.cds[i].kind = "Integer"
    /\ \E i \in 1..3 : last.ret.args[i].seed # 0


\* The last request sent.
Sent == requests[Len(requests)]

\* C21: redisplay() appends exactly one new page at the end of allPages, a
\* root page (no source page) whose id is the pageCounter of before, and sends
\* exactly one request, getSchema on the remote object of the dataset,
\* whatever pages exist and whatever is selected; the pages that existed
\* and the selection are as before.
C21_RedisplayAppendsRootPage ==
    last.op = "redisplay" =>
        /\ allPages = Append(last.pre.allPages, Len(heap))
        /\ Len(heap) = Len(last.pre.heap) + 1
        /\ \A p \in 1..Len(last.pre.heap) : heap[p] = last.pre.heap[p]
        /\ heap[Len(heap)].pageId = last.pre.pageCounter
        /\ heap[Len(heap)].sourcePageId = NullId
        /\ heap[Len(heap)].dataView = NullView
        /\ \A p \in 1..Len(last.pre.heap) :
               heap[p].pageId # heap[Len(heap)].pageId
        /\ pageCounter = last.pre.pageCounter + 1
        /\ selected = last.pre.selected
        /\ selectedPageId = last.pre.selectedPageId
        /\ requests = Append(last.was.requests, Sent)
        /\ Sent.rr = [method |-> "getSchema", args |-> NullStr,
                      objectId |-> DatasetRemoteObjectId]
        /\ Sent.receiver.page = Len(heap)
        /\ Sent.status = "inFlight"
        /\ reported = last.was.reported

\* redisplay() was called with pages on display and a view selected whose
\* remote object is not the dataset's.
C21_Witness ==
    /\ last.op = "redisplay"
    /\ Len(last.pre.allPages) >= 2
    /\ last.pre.selected # NullView
    /\ last.pre.selected.remoteObjectId # DatasetRemoteObjectId
    /\ Len(requests) = 1


\* The requests whose receiver was made by the receiver of request i.
CausedBy(i) == {j \in 1..Len(requests) : requests[j].cause = i}

\* C22: removing or shifting the page combine was called on, while the zip
\* request is in flight, succeeds as it does for any page and leaves the
\* request in flight with its receiver; when the zip then succeeds, one
\* setOperation request is sent, with the operator combine was given and a
\* receiver that holds the same page, and allPages is as it was: a removed
\* page does not come back.
C22_ChainSurvivesDetach ==
    /\ (last.op = "combine" /\ last.pre.selected # NullView)
       => /\ Sent.receiver.setOp = last.args.how
          /\ Sent.receiver.page = last.args.page
    /\ (last.op = "remove" /\ WasDisplayed(last.args.page))
       => /\ last.err = NoError
          /\ last.args.page \notin Displayed
          /\ Len(allPages) = Len(last.pre.allPages) - 1
    /\ (last.op = "shift" /\ WasDisplayed(last.args.page))
       => /\ last.err = NoError
          /\ last.args.page \in Displayed
    /\ last.op = "zipSucceeds"
       => LET i == last.args.request
              zr == requests[i].receiver
          IN  /\ zr = last.was.requests[i].receiver
              /\ requests[i].rr = last.was.requests[i].rr
              /\ requests = Append([last.was.requests EXCEPT
                                       ![i].status = "succeeded",
                                       ![i].value = last.args.value], Sent)
              /\ CausedBy(i) = {Len(requests)}
              /\ Sent.rr.method = "setOperation"
              /\ Sent.rr.args = CombineOperators[zr.setOp + 1]
              /\ Sent.rr.objectId = last.args.value
              /\ Sent.status = "inFlight"
              /\ Sent.receiver.page = zr.page
              /\ Sent.receiver.title = zr.receiver.title
              /\ allPages = last.pre.allPages
              /\ children = last.pre.children
              /\ heap = last.pre.heap

\* The zip of a combine(Exclude) succeeds after its page was removed.
C22_Witness ==
    /\ last.op = "zipSucceeds"
    /\ requests[last.args.request].receiver.setOp = 2
    /\ requests[last.args.request].receiver.page \notin Displayed
    /\ Sent.rr.args = "Exclude"


\* The 0-based position of the page of the last call in allPages before it.
Was == IndexOf(last.pre.allPages, last.args.page)

\* Whether the last call was a shift of a page that had a neighbour on the
\* side it was shifted to.
ShiftedInside ==
    /\ last.op = "shift"
    /\ Was >= 0
    /\ IF last.args.up THEN Was > 0 ELSE Was < Len(last.pre.allPages) - 1

\* C23: shift of a page that is not the first (up) or the last (down) page
\* swaps it with its neighbour on that side: every other page keeps its
\* position, and the length of the list, pageCounter and the selection are as
\* before.  remove of a page of the list takes exactly that page out: the
\* list is one shorter, the other pages keep their order, and pageCounter is
\* as before.
C23_ShiftSwapsRemoveDeletes ==
    /\ ShiftedInside
       => LET to == IF last.args.up THEN Was - 1 ELSE Was + 1 IN
          /\ last.err = NoError
          /\ allPages = [last.pre.allPages EXCEPT
                            ![Was + 1] = last.pre.allPages[to + 1],
                            ![to + 1] = last.args.page]
          /\ heap = last.pre.heap
          /\ pageCounter = last.pre.pageCounter
          /\ selected = last.pre.selected
          /\ selectedPageId = last.pre.selectedPageId
    /\ (last.op = "remove" /\ Was >= 0)
       => /\ last.err = NoError
          /\ allPages = SelectSeq(last.pre.allPages,
                                  LAMBDA p : p # last.args.page)
          /\ Len(allPages) = Len(last.pre.allPages) - 1
          /\ heap = last.pre.heap
          /\ pageCounter = last.pre.pageCounter

\* The first of three pages was shifted down while a view was selected.
C23_Witness ==
    /\ ShiftedInside
    /\ ~last.args.up
    /\ Was = 0
    /\ Len(allPages) = 3
    /\ selected # NullView


\* The title combine gives the result when page id is selected.
CombineTitle(id, how) ==
    PageTitle("%p(" \o ToString(id) \o ")" \o CombineOperators[how + 1])

\* A step keeps every request sent with its receiver, and a request it sends
\* is made of the selection at that moment (a zip, sent by combine) or of
\* the receiver of the zip it follows (a setOperation), never of both.
FixedAtCombine ==
    /\ Len(requests') >= Len(requests)
    /\ \A i \in 1..Len(requests) :
          /\ requests'[i].rr = requests[i].rr
          /\ requests'[i].receiver = requests[i].receiver
          /\ requests'[i].cause = requests[i].cause
    /\ \A j \in (Len(requests) + 1)..Len(requests') :
          LET sent == requests'[j] IN
          IF sent.cause = 0
          THEN /\ last'.op = "combine"
               /\ sent.rr.method = "zip"
               /\ sent.rr.objectId = heap[last'.args.page].dataView.remoteObjectId
               /\ sent.rr.args = selected.remoteObjectId
               /\ sent.receiver.setOp = last'.args.how
               /\ sent.receiver.receiver.title =
                      CombineTitle(selectedPageId, last'.args.how)
          ELSE LET zr == requests[sent.cause].receiver IN
               /\ last'.op = "zipSucceeds"
               /\ sent.cause = last'.args.request
               /\ sent.rr.method = "setOperation"
               /\ sent.rr.args = CombineOperators[zr.setOp + 1]
               /\ sent.receiver.title = zr.receiver.title

\* C24: what a combine works on is fixed when combine is called: the object
\* zipped with, the operator of the later setOperation request and the
\* selected page id in the title given to the result are those of the selection
\* and the operator at the call, and no later step, a select() included,
\* changes them in a request already sent or in the requests that follow it;
\* combines started with different selections each keep their own.
C24_OperandsFixedAtCombine == [][FixedAtCombine]_vars

\* Two combines started with different selections have both reached their
\* setOperation request; the second was started, after a select(), while the
\* zip of the first was in flight.
C24_Witness ==
    \E i, j \in Requests("setOperation") :
        /\ requests[i].receiver.title = CombineTitle(0, 0)
        /\ requests[j].receiver.title = CombineTitle(1, 2)
        /\ requests[requests[i].cause].rr.args = "r1"
        /\ requests[requests[j].cause].rr.args = "r2"
        /\ requests[i].cause < requests[j].cause
        /\ requests[j].cause < i


\* The entry the last call of reconstructView was given.
Entry == last.args.obj.views.items[1]

\* C25: reconstructView of an entry that lacks a mandatory field returns
\* false and leaves the session as it was: no page, the same pageCounter.
\* Of an entry with every mandatory field whose viewKind is "Load" or not
\* recognized, it returns false after it has put a new page without a view,
\* with the pageId of the entry, at the end of allPages, and has raised
\* pageCounter to pageId + 1 when pageId >= pageCounter.
C25_FailingEntry ==
    last.op = "reconstructView" =>
        /\ (\E f \in MandatoryFields : Lacks(Entry, f))
           => /\ last.ret = FALSE
              /\ allPages = last.pre.allPages
              /\ heap = last.pre.heap
              /\ children = last.pre.children
              /\ pageCounter = last.pre.pageCounter
        /\ (/\ \A f \in MandatoryFields : ~Lacks(Entry, f)
            /\ Entry.viewKind \notin ReconstructedKinds)
           => /\ last.ret = FALSE
              /\ Len(heap) = Len(last.pre.heap) + 1
              /\ \A p \in 1..Len(last.pre.heap) : heap[p] = last.pre.heap[p]
              /\ allPages = Append(last.pre.allPages, Len(heap))
              /\ heap[Len(heap)].pageId = Entry.pageId
              /\ heap[Len(heap)].dataView = NullView
              /\ pageCounter = IF Entry.pageId >= last.pre.pageCounter
                               THEN Entry.pageId + 1
                               ELSE last.pre.pageCounter

\* A Load entry was given while pages were on display, and its pageId
\* raised pageCounter.
C25_Witness ==
    /\ last.op = "reconstructView"
    /\ Entry.viewKind = "Load"
    /\ Len(last.pre.allPages) >= 1
    /\ pageCounter = Entry.pageId + 1
    /\ pageCounter > last.pre.pageCounter
    /\ Len(allPages) = Len(last.pre.allPages) + 1


\* C26: no call lowers pageCounter, and the id newPage hands out is greater
\* than the id of every page made before it, by newPage or by reconstruct,
\* removed since or not: ids handed out grow strictly, and the id of a
\* removed page or of a reconstructed page is never handed out again.
C26_IdsGrow ==
    /\ pageCounter >= last.pre.pageCounter
    /\ last.op = "newPage"
       => /\ Len(heap) = Len(last.pre.heap) + 1
          /\ \A p \in 1..Len(last.pre.heap) :
                /\ heap[p] = last.pre.heap[p]
                /\ heap[p].pageId < heap[Len(heap)].pageId
          /\ pageCounter > heap[Len(heap)].pageId

\* newPage gave an id in a session that holds a reconstructed page (id 0 is
\* never given by newPage) and a removed page with a greater id.
C26_Witness ==
    /\ last.op = "newPage"
    /\ last.err = NoError
    /\ \E p, q \in 1..Len(last.pre.heap) :
          /\ heap[p].pageId = 0
          /\ heap[q].pageId > 0
          /\ q \notin Displayed
          /\ heap[last.ret].pageId > heap[q].pageId


\* The last call was newPage with a source page that was not in allPages.
SourceNotFound ==
    /\ last.op = "newPage"
    /\ last.args.after # NullPage
    /\ ~WasDisplayed(last.args.after)

\* Id n was taken from pageCounter by a newPage that has just failed.
Lost(n) == SourceNotFound /\ last.pre.pageCounter = n

\* A page of allPages has id n.
Shown(n) == \E i \in 1..Len(allPages) : IdAt(i) = n

====
